---- MODULE Spec2Model ----
(***************************************************************************)
(* Unique_ptr<T, D> of include/unique_ptr.h as a state machine.            *)
(*                                                                         *)
(* A fixed pool of Unique_ptr objects is modelled.  Every object goes      *)
(* through "unborn" -> "live" -> "dead" once.  An object's storage is its  *)
(* Compressed_pair pair_ = (first, second) = (stored pointer, stored       *)
(* deleter).  Addresses are resource identities, Null is nullptr.          *)
(*                                                                         *)
(* The calling code obtains addresses from new-expressions, which yield    *)
(* the addresses 1, 2, ... in turn; allocated is the number obtained.      *)
(*                                                                         *)
(* History variables (not program state): calls counts the invocations of  *)
(* a deleter per address, where the count 2 stands for "twice or more";    *)
(* last records the most recent member-function call with the values its   *)
(* operands had before the call and the deleter invocations it made;       *)
(* adoptedBy, adoptions, misuse and handedBack record what the calling     *)
(* code did with raw addresses; pairedWith, mismatch and carried record    *)
(* which deleter an address was adopted with and which released it.        *)
(* track selects which of them a behaviour records (see Records); the      *)
(* objects and their transitions are the same whatever it is.              *)
(*                                                                         *)
(* SpecThreads runs release() and reset() statement by statement in two    *)
(* threads (pc, frame); every other specification runs each member         *)
(* function as one step.                                                   *)
(***************************************************************************)
EXTENDS Integers, Sequences, FiniteSets, TLC

\* ---- bounds of the model ----
NInst == 2
NAddr == 2

\* ---- values ----
Null == 0
Addr == 1..NAddr
Pointer == Addr \cup {Null}
Inst == 1..NInst
\* adoptedBy[a]: 0 when the caller never handed a to an object, the object
\* when it did so once, Many when it did so more than once; adoptions[a]:
\* how often it did so, 2 standing for "twice or more"
Many == NInst + 1
DefaultDeleter == "d0"
Deleter == {"d0", "d1"}
\* the deleter of an object whose deleter type is D&: a reference to the
\* deleter object d of the calling code
Ref == "ref"
\* the value of a deleter object after D(D&&) took it and changed it
MovedFrom == "mf"
StoredDeleter == Deleter \cup {MovedFrom, Ref}
\* the threads of the calling code that call members without locking
Thread == {"t1", "t2"}

\* ext: the value of the calling code's deleter object d
VARIABLES alive, pair_, calls, allocated, track, last, adoptedBy, adoptions,
          misuse, handedBack, ext, pairedWith, mismatch, carried,
          pc, frame, obtained, overlapped

vars == <<alive, pair_, calls, allocated, track, last, adoptedBy, adoptions,
          misuse, handedBack, ext, pairedWith, mismatch, carried,
          pc, frame, obtained, overlapped>>

\* ---- detail::Compressed_pair ----
CompressedPairDefault == [first |-> Null, second |-> DefaultDeleter]

CompressedPairFirstDropped(f) == [first |-> Null, second |-> DefaultDeleter]

CompressedPairFirst(f) == [first |-> f, second |-> DefaultDeleter]

CompressedPairBoth(f, s) == [first |-> f, second |-> s]

\* ---- the machine the member functions work on ----
\* pair: the storage of every object; calls: deleter invocations per address;
\* inv: the invocations <<deleter, address>> of the running call, in order;
\* at: the storage of every object at the moment of each of these invocations;
\* ret: the pointer the last release() or observer returned; res: the other
\* results of observers and comparisons.
Machine ==
  [pair |-> pair_, calls |-> calls, inv |-> <<>>, at |-> <<>>, ret |-> Null,
   res |-> "", ext |-> ext]

get(m, i) == m.pair[i].first

get_deleter(m, i) == m.pair[i].second

\* ---- observers and comparisons ----
operator_bool_true(m, i) == TRUE

operator_bool(m, i) == get(m, i) # Null

eq_nullptr(m, x) == ~operator_bool(m, x)

operator_eq_identity(m, x, y) == x = y

operator_eq(m, x, y) == get(m, x) = get(m, y)

\* std::compare_three_way on two stored pointers
compare_three_way(p, q) ==
  IF p < q THEN "less" ELSE IF p = q THEN "equal" ELSE "greater"

three_way(m, x, y) == compare_three_way(get(m, x), get(m, y))

three_way_nullptr(m, x) == compare_three_way(get(m, x), Null)

\* the observers as calls: the machine after the call, with its result
BoolResult(b) == IF b THEN "true" ELSE "false"

observe_get_release(m, i) ==
  [m EXCEPT !.pair[i].first = Null, !.ret = m.pair[i].first]

observe_get(m, i) == [m EXCEPT !.ret = get(m, i)]

observe_arrow(m, i) == [m EXCEPT !.ret = get(m, i)]

observe_star(m, i) == [m EXCEPT !.ret = get(m, i)]

observe_get_deleter(m, i) == [m EXCEPT !.res = get_deleter(m, i)]

observe_bool(m, i) == [m EXCEPT !.res = BoolResult(operator_bool(m, i))]

observe_eq(m, x, y) == [m EXCEPT !.res = BoolResult(operator_eq(m, x, y))]

observe_three_way(m, x, y) == [m EXCEPT !.res = three_way(m, x, y)]

observe_eq_nullptr(m, x) == [m EXCEPT !.res = BoolResult(eq_nullptr(m, x))]

observe_three_way_nullptr(m, x) == [m EXCEPT !.res = three_way_nullptr(m, x)]

\* d(a): the deleter's function call operator
Call(m, d, a) ==
  [m EXCEPT !.calls[a] = IF @ < 2 THEN @ + 1 ELSE 2,
            !.inv = Append(@, <<d, a>>),
            !.at = Append(@, m.pair)]

release_keep(m, i) == [m EXCEPT !.ret = m.pair[i].first]

release_and_delete(m, i) ==
  LET m1 == [m EXCEPT !.pair[i].first = Null, !.ret = m.pair[i].first]
  IN  IF m1.ret # Null THEN Call(m1, get_deleter(m1, i), m1.ret) ELSE m1

release(m, i) == [m EXCEPT !.pair[i].first = Null, !.ret = m.pair[i].first]

reset_no_call(m, i, p) == [m EXCEPT !.pair[i].first = p]

reset_twice(m, i, p) ==
  LET old_p == m.pair[i].first
      m1 == [m EXCEPT !.pair[i].first = p]
  IN  IF old_p # Null
        THEN Call(Call(m1, get_deleter(m1, i), old_p), get_deleter(m1, i), old_p)
        ELSE m1

reset_call_new(m, i, p) ==
  LET old_p == m.pair[i].first
      m1 == [m EXCEPT !.pair[i].first = p]
  IN  IF p # Null THEN Call(m1, get_deleter(m1, i), p) ELSE m1

reset_call_first(m, i, p) ==
  LET old_p == m.pair[i].first
      m1 == IF old_p # Null THEN Call(m, get_deleter(m, i), old_p) ELSE m
  IN  [m1 EXCEPT !.pair[i].first = p]

reset(m, i, p) ==
  LET old_p == m.pair[i].first
      m1 == [m EXCEPT !.pair[i].first = p]
  IN  IF old_p # Null THEN Call(m1, get_deleter(m1, i), old_p) ELSE m1

dtor_no_call(m, i) == m

dtor_clear(m, i) ==
  LET m1 == IF get(m, i) # Null
              THEN Call(m, get_deleter(m, i), get(m, i)) ELSE m
  IN  [m1 EXCEPT !.pair[i].first = Null]

dtor(m, i) ==
  IF get(m, i) # Null THEN Call(m, get_deleter(m, i), get(m, i)) ELSE m

move_ctor_copy(m, i, u) ==
  [m EXCEPT !.pair[i] = CompressedPairBoth(get(m, u), get_deleter(m, u))]

move_ctor_default_deleter(m, i, u) ==
  LET m1 == release(m, u)
  IN  [m1 EXCEPT !.pair[i] = CompressedPairFirst(m1.ret)]

move_ctor(m, i, u) ==
  LET m1 == release(m, u)
  IN  [m1 EXCEPT !.pair[i] = CompressedPairBoth(m1.ret, get_deleter(m1, u))]

conv_move_ctor(m, i, u) ==
  LET m1 == release(m, u)
  IN  [m1 EXCEPT !.pair[i] = CompressedPairBoth(m1.ret, get_deleter(m1, u))]

\* what D(D&&) can leave of the deleter value v it took: the test's D
\* leaves it as it was, another D need not
MoveConstructedFrom(v) == {v, MovedFrom}

\* Unique_ptr<T, D>(Unique_ptr<U, D&> &&u): std::forward<D>(u.get_deleter())
\* is an rvalue of the calling code's deleter object, so that
\* Compressed_pair constructs the stored deleter with D(D&&) from it;
\* e is what this leaves of the object.
conv_move_ctor_from_ref(m, i, u, e) ==
  LET m1 == release(m, u)
  IN  [m1 EXCEPT !.pair[i] = CompressedPairBoth(m1.ret, m.ext), !.ext = e]

move_assign_reset_first(m, i, u) ==
  LET m1 == reset(m, i, get(m, u))
      m2 == release(m1, u)
  IN  [m2 EXCEPT !.pair[i].second = get_deleter(m2, u)]

move_assign_free_source(m, i, u) ==
  LET m1 == release(m, u)
      m2 == reset(m1, i, m1.ret)
      m3 == IF m1.ret # Null /\ i # u
              THEN Call(m2, get_deleter(m2, u), m1.ret) ELSE m2
  IN  [m3 EXCEPT !.pair[i].second = get_deleter(m3, u)]

move_assign_deleter_first(m, i, u) ==
  LET m1 == [m EXCEPT !.pair[i].second = get_deleter(m, u)]
      m2 == release(m1, u)
  IN  reset(m2, i, m2.ret)

move_assign(m, i, u) ==
  LET m1 == release(m, u)
      m2 == reset(m1, i, m1.ret)
  IN  [m2 EXCEPT !.pair[i].second = get_deleter(m2, u)]

conv_move_assign(m, i, u) ==
  LET m1 == release(m, u)
      m2 == reset(m1, i, m1.ret)
  IN  [m2 EXCEPT !.pair[i].second = get_deleter(m2, u)]

null_assign_release(m, i) == release(m, i)

null_assign(m, i) == reset(m, i, Null)

swap_first_only(m, i, u) ==
  [m EXCEPT !.pair[i].first = m.pair[u].first,
            !.pair[u].first = m.pair[i].first]

swap(m, i, u) ==
  LET m1 == [m EXCEPT !.pair[i].first = m.pair[u].first,
                      !.pair[u].first = m.pair[i].first]
  IN  [m1 EXCEPT !.pair[i].second = m1.pair[u].second,
                 !.pair[u].second = m1.pair[i].second]

free_swap(m, x, y) == swap(m, x, y)

\* ---- calls made by threads, statement by statement ----
\* pc[t]: the statement of release() or reset() the thread t executes next;
\* frame[t]: the object it called the member on, the argument p and the
\* locals ret and old_p.  History: obtained[a] counts the calls of release()
\* that returned the address a, 2 standing for "twice or more"; overlapped
\* tells whether a thread ever called a member of an object while another
\* thread was inside a member of the same object.
NoFrame == [this |-> 0, p |-> Null, ret |-> Null, old_p |-> Null]

\* ---- bookkeeping shared by the actions ----
\* the history variables a behaviour records, by the value of track
Records(v) ==
  CASE v = "last"       -> track = "calls"
    [] v = "observed"   -> track = "observe"
    [] v = "calls"      -> track \in {"account", "resource", "threads"}
    [] v = "misuse"     -> track \in {"unique", "resource"}
    [] v = "adoptedBy"  -> track = "unique"
    [] v = "pairedWith" -> track = "paired"
    [] v = "mismatch"   -> track = "paired"
    [] v = "carried"    -> track = "paired"
    [] v = "adoptions"  -> track = "account"
    [] v = "handedBack" -> track = "account"

NoPair == CompressedPairDefault

\* pairedWith[a]: the object that adopted the address a last and the
\* deleter it held when it did so; Unpaired before any did and again once a
\* deleter was invoked on a or release() handed a back; Conflict once the caller handed a to an object
\* while another live object held it.  mismatch: the addresses a deleter
\* other than pairedWith[a].d was invoked on.  carried: an object other than
\* pairedWith[a].by invoked the deleter pairedWith[a].d, not the default
\* one, on an address a.
Unpaired == [d |-> "none", by |-> 0]
Conflict == [d |-> "several", by |-> 0]

\* the addresses among the invocations inv that a deleter other than the
\* one they are paired with was invoked on
Mismatched(inv) ==
  {inv[k][2] : k \in {j \in 1..Len(inv) :
                        /\ pairedWith[inv[j][2]] # Conflict
                        /\ inv[j][1] # pairedWith[inv[j][2]].d}}

\* the addresses among the invocations inv, made by the object i, that are
\* paired with the deleter invoked, not the default one, and were adopted by
\* another object
ReleasedElsewhere(inv, i) ==
  {inv[k][2] : k \in {j \in 1..Len(inv) :
                        /\ inv[j][1] = pairedWith[inv[j][2]].d
                        /\ inv[j][1] # DefaultDeleter
                        /\ pairedWith[inv[j][2]].by # i}}

\* the pairings after the invocations inv and after release() handed the
\* address back to the caller, if it did
Unpair(inv, back) ==
  [x \in Addr |->
     IF /\ pairedWith[x] # Conflict
        /\ x = back \/ \E k \in 1..Len(inv) : inv[k][2] = x
       THEN Unpaired ELSE pairedWith[x]]

IsLive(i) == alive[i] = "live"

\* objects are constructed in declaration order
CanConstruct(i) ==
  /\ alive[i] = "unborn"
  /\ \A j \in Inst : j < i => alive[j] # "unborn"

\* what the following call has to know about a call: whether it was a
\* release() or a self move assignment, and on which object
Kind(l) ==
  IF l.op = "release" THEN <<"release", l.a>>
  ELSE IF l.op = "move_assign" /\ l.a = l.b THEN <<"self_move_assign", l.a>>
  ELSE <<"other", 0>>

\* the calls of the observers and of the comparisons
ObserverOps ==
  {"get", "get_deleter", "bool", "arrow", "star", "eq", "three_way",
   "eq_nullptr", "three_way_nullptr"}

NoCall ==
  [op |-> "none", a |-> 0, b |-> 0, p |-> Null,
   preA |-> NoPair, preB |-> NoPair, preExt |-> "d1", ret |-> Null, res |-> "",
   inv |-> <<>>, seen |-> <<>>, prev |-> <<"other", 0>>]

Record(op, a, b, p, m) ==
  [op |-> op, a |-> a, b |-> b, p |-> p,
   preA |-> IF a \in Inst THEN pair_[a] ELSE NoPair,
   preB |-> IF b \in Inst THEN pair_[b] ELSE NoPair,
   preExt |-> ext,
   ret |-> IF op \in {"release", "get", "arrow", "star"} THEN m.ret ELSE Null,
   res |-> m.res,
   inv |-> m.inv,
   seen |-> [k \in 1..Len(m.at) |->
               [A |-> IF a \in Inst THEN m.at[k][a] ELSE NoPair,
                B |-> IF b \in Inst THEN m.at[k][b] ELSE NoPair]],
   prev |-> Kind(last)]

\* what the caller does wrong when handing the raw address p to object i
Faults(i, p) ==
  IF p = Null THEN {}
  ELSE (IF \E j \in Inst \ {i} : IsLive(j) /\ pair_[j].first = p
          THEN {"other"} ELSE {})
       \cup (IF IsLive(i) /\ pair_[i].first = p THEN {"self"} ELSE {})
       \cup (IF calls[p] > 0 THEN {"invoked"} ELSE {})

Commit(op, a, b, p, m) ==
  /\ pair_' = m.pair
  /\ ext' = m.ext
  /\ calls' = IF Records("calls") THEN m.calls ELSE calls
  /\ last' = IF Records("last") \/ (Records("observed") /\ op \in ObserverOps)
               THEN Record(op, a, b, p, m)
             ELSE IF Records("observed") THEN NoCall ELSE last
  /\ mismatch' = IF Records("mismatch")
                   THEN mismatch \cup Mismatched(m.inv) ELSE mismatch
  /\ pairedWith' = IF ~Records("pairedWith") THEN pairedWith
                   ELSE IF p = Null
                     THEN Unpair(m.inv, IF op = "release" THEN m.ret ELSE Null)
                   ELSE [Unpair(m.inv, Null) EXCEPT
                          ![p] = IF "other" \in Faults(a, p)
                                      \/ pairedWith[p] = Conflict
                                   THEN Conflict
                                   ELSE [d |-> m.pair[a].second, by |-> a]]
  /\ carried' = IF Records("carried")
                  THEN carried \/ ReleasedElsewhere(m.inv, a) # {}
                  ELSE carried
  /\ track' = track
  /\ UNCHANGED <<pc, frame, obtained, overlapped>>

\* the addresses the caller can pass: nullptr, an address it obtained
\* earlier, or the one the next new-expression yields
CallerPointers ==
  {Null} \cup {a \in Addr : a <= allocated + 1}

\* the caller hands the raw address p to object i (constructor or reset)
Adopt(i, p) ==
  /\ p \in CallerPointers
  /\ allocated' = IF p > allocated THEN p ELSE allocated
  /\ misuse' = IF Records("misuse") THEN misuse \cup Faults(i, p) ELSE misuse
  /\ adoptedBy' = IF Records("adoptedBy") /\ p # Null
                    THEN [adoptedBy EXCEPT ![p] = IF @ = 0 THEN i ELSE Many]
                    ELSE adoptedBy
  /\ adoptions' = IF Records("adoptions") /\ p # Null
                    THEN [adoptions EXCEPT ![p] = IF @ < 2 THEN @ + 1 ELSE 2]
                    ELSE adoptions

HandBack(p) ==
  handedBack' = IF Records("handedBack") /\ p # Null
                  THEN handedBack \cup {p} ELSE handedBack

NoAdopt == UNCHANGED <<allocated, adoptedBy, adoptions, misuse>>

Born(i) == alive' = [alive EXCEPT ![i] = "live"]

\* ---- initial state ----
InitCommon ==
  /\ alive = [i \in Inst |-> "unborn"]
  /\ pair_ = [i \in Inst |-> CompressedPairDefault]
  /\ calls = [a \in Addr |-> 0]
  /\ last = NoCall
  /\ ext = "d1"
  /\ allocated = 0
  /\ adoptedBy = [a \in Addr |-> 0]
  /\ adoptions = [a \in Addr |-> 0]
  /\ misuse = {}
  /\ handedBack = {}
  /\ pairedWith = [a \in Addr |-> Unpaired]
  /\ mismatch = {}
  /\ carried = FALSE
  /\ pc = [t \in Thread |-> "idle"]
  /\ frame = [t \in Thread |-> NoFrame]
  /\ obtained = [a \in Addr |-> 0]
  /\ overlapped = FALSE

Init == InitCommon /\ track = "calls"

InitUnique == InitCommon /\ track = "unique"

InitAccount == InitCommon /\ track = "account"

InitResource == InitCommon /\ track = "resource"

InitObserve == InitCommon /\ track = "observe"

InitPaired == InitCommon /\ track = "paired"

InitThreads == InitCommon /\ track = "threads"

\* ---- constructors ----
DefaultCtor(i) ==
  /\ CanConstruct(i)
  /\ Born(i)
  /\ Commit("ctor", i, 0, Null,
            [Machine EXCEPT !.pair[i] = CompressedPairDefault])
  /\ NoAdopt
  /\ UNCHANGED handedBack

NullptrCtor(i) ==
  /\ CanConstruct(i)
  /\ Born(i)
  /\ Commit("ctor_null", i, 0, Null,
            [Machine EXCEPT !.pair[i] = CompressedPairDefault])
  /\ NoAdopt
  /\ UNCHANGED handedBack

PtrCtor(i, p) ==
  /\ CanConstruct(i)
  /\ Born(i)
  /\ Commit("ctor_p", i, 0, p,
            [Machine EXCEPT !.pair[i] = CompressedPairFirst(p)])
  /\ Adopt(i, p)
  /\ UNCHANGED handedBack

PtrDeleterCopyCtor(i, p, d) ==
  /\ CanConstruct(i)
  /\ Born(i)
  /\ Commit("ctor_pd", i, 0, p,
            [Machine EXCEPT !.pair[i] = CompressedPairBoth(p, d)])
  /\ Adopt(i, p)
  /\ UNCHANGED handedBack

PtrDeleterMoveCtor(i, p, d) ==
  /\ CanConstruct(i)
  /\ Born(i)
  /\ Commit("ctor_pd_move", i, 0, p,
            [Machine EXCEPT !.pair[i] = CompressedPairBoth(p, d)])
  /\ Adopt(i, p)
  /\ UNCHANGED handedBack

MoveCtor(i, u) ==
  /\ CanConstruct(i)
  /\ IsLive(u)
  /\ Born(i)
  /\ Commit("move_ctor", i, u, Null, move_ctor(Machine, i, u))
  /\ NoAdopt
  /\ UNCHANGED handedBack

ConvMoveCtor(i, u) ==
  /\ CanConstruct(i)
  /\ IsLive(u)
  /\ Born(i)
  /\ Commit("conv_move_ctor", i, u, Null, conv_move_ctor(Machine, i, u))
  /\ NoAdopt
  /\ UNCHANGED handedBack

\* ---- destructor ----
Dtor(i) ==
  /\ IsLive(i)
  /\ alive' = [alive EXCEPT ![i] = "dead"]
  /\ Commit("dtor", i, 0, Null, dtor(Machine, i))
  /\ NoAdopt
  /\ UNCHANGED handedBack

\* ---- assignment ----
\* the objects i and u have the same deleter type: D& both, or D both
SameDeleterType(i, u) ==
  (get_deleter(Machine, i) = Ref) <=> (get_deleter(Machine, u) = Ref)

MoveAssign(i, u) ==
  /\ IsLive(i)
  /\ IsLive(u)
  /\ SameDeleterType(i, u)
  /\ Commit("move_assign", i, u, Null, move_assign(Machine, i, u))
  /\ NoAdopt
  /\ UNCHANGED <<alive, handedBack>>

ConvMoveAssign(i, u) ==
  /\ IsLive(i)
  /\ IsLive(u)
  /\ i # u
  /\ SameDeleterType(i, u)
  /\ Commit("conv_move_assign", i, u, Null, conv_move_assign(Machine, i, u))
  /\ NoAdopt
  /\ UNCHANGED <<alive, handedBack>>

NullAssign(i) ==
  /\ IsLive(i)
  /\ Commit("null_assign", i, 0, Null, null_assign(Machine, i))
  /\ NoAdopt
  /\ UNCHANGED <<alive, handedBack>>

\* ---- modifiers ----
Release(i) ==
  /\ IsLive(i)
  /\ LET m == release(Machine, i)
     IN  /\ Commit("release", i, 0, Null, m)
         /\ HandBack(m.ret)
  /\ NoAdopt
  /\ UNCHANGED alive

Reset(i, p) ==
  /\ IsLive(i)
  /\ Commit("reset", i, 0, p, reset(Machine, i, p))
  /\ Adopt(i, p)
  /\ UNCHANGED <<alive, handedBack>>

\* reset() with the default argument pointer()
ResetDefault(i) ==
  /\ IsLive(i)
  /\ Commit("reset_default", i, 0, Null, reset(Machine, i, Null))
  /\ NoAdopt
  /\ UNCHANGED <<alive, handedBack>>

Swap(i, u) ==
  /\ IsLive(i)
  /\ IsLive(u)
  /\ SameDeleterType(i, u)
  /\ Commit("swap", i, u, Null, swap(Machine, i, u))
  /\ NoAdopt
  /\ UNCHANGED <<alive, handedBack>>

FreeSwap(x, y) ==
  /\ IsLive(x)
  /\ IsLive(y)
  /\ SameDeleterType(x, y)
  /\ Commit("free_swap", x, y, Null, free_swap(Machine, x, y))
  /\ NoAdopt
  /\ UNCHANGED <<alive, handedBack>>

Next ==
  \/ \E i \in Inst : DefaultCtor(i)
  \/ \E i \in Inst : NullptrCtor(i)
  \/ \E i \in Inst, p \in Pointer : PtrCtor(i, p)
  \/ \E i \in Inst, p \in Pointer, d \in Deleter : PtrDeleterCopyCtor(i, p, d)
  \/ \E i \in Inst, p \in Pointer, d \in Deleter : PtrDeleterMoveCtor(i, p, d)
  \/ \E i \in Inst, u \in Inst : MoveCtor(i, u)
  \/ \E i \in Inst, u \in Inst : ConvMoveCtor(i, u)
  \/ \E i \in Inst : Dtor(i)
  \/ \E i \in Inst, u \in Inst : MoveAssign(i, u)
  \/ \E i \in Inst, u \in Inst : ConvMoveAssign(i, u)
  \/ \E i \in Inst : NullAssign(i)
  \/ \E i \in Inst : Release(i)
  \/ \E i \in Inst, p \in Pointer : Reset(i, p)
  \/ \E i \in Inst : ResetDefault(i)
  \/ \E i \in Inst, u \in Inst : Swap(i, u)
  \/ \E x \in Inst, y \in Inst : FreeSwap(x, y)

Spec == Init /\ [][Next]_vars

\* ---- deleters of reference type ----
\* Unique_ptr<T, D&>(p, d)
PtrDeleterRefCtor(i, p) ==
  /\ CanConstruct(i)
  /\ Born(i)
  /\ Commit("ctor_pd_ref", i, 0, p,
            [Machine EXCEPT !.pair[i] = CompressedPairBoth(p, Ref)])
  /\ Adopt(i, p)
  /\ UNCHANGED handedBack

\* Unique_ptr<T, D>(Unique_ptr<U, D&> &&u)
ConvMoveCtorFromRef(i, u) ==
  /\ CanConstruct(i)
  /\ IsLive(u)
  /\ get_deleter(Machine, u) = Ref
  /\ Born(i)
  /\ \E e \in MoveConstructedFrom(ext) :
       Commit("conv_move_ctor_from_ref", i, u, Null,
              conv_move_ctor_from_ref(Machine, i, u, e))
  /\ NoAdopt
  /\ UNCHANGED handedBack

NextPolicy ==
  \/ Next
  \/ \E i \in Inst, p \in Pointer : PtrDeleterRefCtor(i, p)
  \/ \E i \in Inst, u \in Inst : ConvMoveCtorFromRef(i, u)

\* the program with objects whose deleter type is a reference as well
SpecPolicy == Init /\ [][NextPolicy]_vars

\* ---- release() and reset() called by threads ----
ThreadFrame ==
  UNCHANGED <<alive, ext, last, track, adoptedBy, adoptions, misuse,
              handedBack, pairedWith, mismatch, carried>>

\* the thread t enters a member of the object i
Enter(t, i, at, p) ==
  /\ pc[t] = "idle"
  /\ IsLive(i)
  /\ pc' = [pc EXCEPT ![t] = at]
  /\ frame' = [frame EXCEPT ![t] = [NoFrame EXCEPT !.this = i, !.p = p]]
  /\ overlapped' = (overlapped \/
                      \E u \in Thread \ {t} :
                        pc[u] # "idle" /\ frame[u].this = i)

ThreadCallRelease(t, i) ==
  /\ Enter(t, i, "release_read", Null)
  /\ UNCHANGED <<pair_, calls, allocated, obtained>>
  /\ ThreadFrame

\* pointer ret = pair_.first();
ThreadReleaseRead(t) ==
  /\ pc[t] = "release_read"
  /\ frame' = [frame EXCEPT ![t].ret = pair_[frame[t].this].first]
  /\ pc' = [pc EXCEPT ![t] = "release_write"]
  /\ UNCHANGED <<pair_, calls, allocated, obtained, overlapped>>
  /\ ThreadFrame

\* return ret; without pair_.first() = nullptr;
ThreadReleaseNoWrite(t) ==
  /\ pc[t] = "release_write"
  /\ obtained' = IF frame[t].ret = Null THEN obtained
                  ELSE [obtained EXCEPT ![frame[t].ret] = IF @ < 2 THEN @ + 1 ELSE 2]
  /\ pc' = [pc EXCEPT ![t] = "idle"]
  /\ frame' = [frame EXCEPT ![t] = NoFrame]
  /\ UNCHANGED <<pair_, calls, allocated, overlapped>>
  /\ ThreadFrame

\* pair_.first() = nullptr; return ret;
ThreadReleaseWrite(t) ==
  /\ pc[t] = "release_write"
  /\ pair_' = [pair_ EXCEPT ![frame[t].this].first = Null]
  /\ obtained' = IF frame[t].ret = Null THEN obtained
                  ELSE [obtained EXCEPT ![frame[t].ret] = IF @ < 2 THEN @ + 1 ELSE 2]
  /\ pc' = [pc EXCEPT ![t] = "idle"]
  /\ frame' = [frame EXCEPT ![t] = NoFrame]
  /\ UNCHANGED <<calls, allocated, overlapped>>
  /\ ThreadFrame

\* the argument of reset: nullptr or the address of a new object
ThreadCallReset(t, i, p) ==
  /\ p \in {Null} \cup {a \in Addr : a = allocated + 1}
  /\ Enter(t, i, "reset_read", p)
  /\ allocated' = IF p > allocated THEN p ELSE allocated
  /\ UNCHANGED <<pair_, calls, obtained>>
  /\ ThreadFrame

\* pointer old_p = pair_.first();
ThreadResetRead(t) ==
  /\ pc[t] = "reset_read"
  /\ frame' = [frame EXCEPT ![t].old_p = pair_[frame[t].this].first]
  /\ pc' = [pc EXCEPT ![t] = "reset_write"]
  /\ UNCHANGED <<pair_, calls, allocated, obtained, overlapped>>
  /\ ThreadFrame

\* pair_.first() = p;
ThreadResetWrite(t) ==
  /\ pc[t] = "reset_write"
  /\ pair_' = [pair_ EXCEPT ![frame[t].this].first = frame[t].p]
  /\ pc' = [pc EXCEPT ![t] = "reset_delete"]
  /\ UNCHANGED <<frame, calls, allocated, obtained, overlapped>>
  /\ ThreadFrame

\* if (old_p != nullptr) get_deleter()(old_p);
ThreadResetDelete(t) ==
  /\ pc[t] = "reset_delete"
  /\ calls' = IF frame[t].old_p = Null THEN calls
               ELSE Call(Machine, get_deleter(Machine, frame[t].this),
                         frame[t].old_p).calls
  /\ pc' = [pc EXCEPT ![t] = "idle"]
  /\ frame' = [frame EXCEPT ![t] = NoFrame]
  /\ UNCHANGED <<pair_, allocated, obtained, overlapped>>
  /\ ThreadFrame

\* the calling code constructs the objects, each from the address of a new
\* object or from nullptr, and its threads call release() and reset()
NextThreads ==
  \/ \E i \in Inst, p \in {Null} \cup {a \in Addr : a = allocated + 1} :
       PtrCtor(i, p)
  \/ \E t \in Thread, i \in Inst : ThreadCallRelease(t, i)
  \/ \E t \in Thread : ThreadReleaseRead(t)
  \/ \E t \in Thread : ThreadReleaseWrite(t)
  \/ \E t \in Thread, i \in Inst, p \in Pointer : ThreadCallReset(t, i, p)
  \/ \E t \in Thread : ThreadResetRead(t)
  \/ \E t \in Thread : ThreadResetWrite(t)
  \/ \E t \in Thread : ThreadResetDelete(t)

SpecThreads == InitThreads /\ [][NextThreads]_vars

\* ---- observers ----
Observe(op, a, b, m) ==
  /\ Commit(op, a, b, Null, m)
  /\ NoAdopt
  /\ UNCHANGED <<alive, handedBack>>

Get(i) == IsLive(i) /\ Observe("get", i, 0, observe_get(Machine, i))

GetDeleter(i) ==
  IsLive(i) /\ Observe("get_deleter", i, 0, observe_get_deleter(Machine, i))

OperatorBool(i) ==
  IsLive(i) /\ Observe("bool", i, 0, observe_bool(Machine, i))

OperatorArrow(i) ==
  IsLive(i) /\ Observe("arrow", i, 0, observe_arrow(Machine, i))

\* Preconditions: get() != nullptr
OperatorStar(i) ==
  /\ IsLive(i)
  /\ get(Machine, i) # Null
  /\ Observe("star", i, 0, observe_star(Machine, i))

OperatorEq(x, y) ==
  /\ IsLive(x)
  /\ IsLive(y)
  /\ Observe("eq", x, y, observe_eq(Machine, x, y))

OperatorThreeWay(x, y) ==
  /\ IsLive(x)
  /\ IsLive(y)
  /\ Observe("three_way", x, y, observe_three_way(Machine, x, y))

OperatorEqNullptr(x) ==
  IsLive(x) /\ Observe("eq_nullptr", x, 0, observe_eq_nullptr(Machine, x))

OperatorThreeWayNullptr(x) ==
  /\ IsLive(x)
  /\ Observe("three_way_nullptr", x, 0, observe_three_way_nullptr(Machine, x))

NextObserve ==
  \/ Next
  \/ \E i \in Inst : Get(i)
  \/ \E i \in Inst : GetDeleter(i)
  \/ \E i \in Inst : OperatorBool(i)
  \/ \E i \in Inst : OperatorArrow(i)
  \/ \E i \in Inst : OperatorStar(i)
  \/ \E x \in Inst, y \in Inst : OperatorEq(x, y)
  \/ \E x \in Inst, y \in Inst : OperatorThreeWay(x, y)
  \/ \E x \in Inst : OperatorEqNullptr(x)
  \/ \E x \in Inst : OperatorThreeWayNullptr(x)

\* the program with the calls of its observers and comparisons, of which
\* last records those only
SpecObserve == InitObserve /\ [][NextObserve]_vars

\* the same program, recording the caller's handling of raw addresses
SpecUnique == InitUnique /\ [][Next]_vars

SpecAccount == InitAccount /\ [][Next]_vars

SpecResource == InitResource /\ [][Next]_vars

SpecPaired == InitPaired /\ [][Next]_vars

TypeOK ==
  /\ alive \in [Inst -> {"unborn", "live", "dead"}]
  /\ pair_ \in [Inst -> [first : Pointer, second : StoredDeleter]]
  /\ ext \in Deleter \cup {MovedFrom}
  /\ calls \in [Addr -> 0..2]
  /\ allocated \in 0..NAddr
  /\ adoptedBy \in [Addr -> {0, Many} \cup Inst]
  /\ adoptions \in [Addr -> 0..2]
  /\ misuse \subseteq {"other", "self", "invoked"}
  /\ handedBack \subseteq Addr
  /\ pairedWith \in [Addr -> [d : Deleter, by : Inst] \cup {Unpaired, Conflict}]
  /\ mismatch \subseteq Addr
  /\ carried \in BOOLEAN
  /\ pc \in [Thread -> {"idle", "release_read", "release_write",
                        "reset_read", "reset_write", "reset_delete"}]
  /\ frame \in [Thread -> [this : Inst \cup {0}, p : Pointer, ret : Pointer,
                           old_p : Pointer]]
  /\ obtained \in [Addr -> 0..2]
  /\ overlapped \in BOOLEAN

\* ======================= properties =======================

Held(i) == pair_[i].first

NoneLive == \A i \in Inst : ~IsLive(i)

\* the deleter invocations of the last call are exactly one, on address a
InvokedOnceOn(a) == Len(last.inv) = 1 /\ last.inv[1][2] = a

\* the invocations a call makes that releases the address old, if any
ReleasesOnly(old) ==
  IF old # Null THEN InvokedOnceOn(old) ELSE last.inv = <<>>

\* ---- C1 ----
UniqueOwner ==
  \A i \in Inst, j \in Inst :
    (i # j /\ IsLive(i) /\ IsLive(j) /\ Held(i) # Null) => Held(i) # Held(j)

\* C1: as long as the caller never hands an object an address that another
\* live object holds, no two live objects hold the same non-null address.
C1_UniqueOwner == ("other" \notin misuse) => UniqueOwner

\* an address adopted by object 1 is now held by object 2 while both are live
C1_Witness ==
  /\ "other" \notin misuse
  /\ IsLive(1) /\ IsLive(2)
  /\ Held(1) = Null /\ Held(2) # Null
  /\ adoptedBy[Held(2)] = 1

\* ---- C2 ----
AdoptedOnce == \A a \in Addr : adoptions[a] <= 1

\* C2: when every address is adopted at most once, no address has the deleter
\* invoked on it twice, and once no object is live every adopted address that
\* release() did not hand back has had the deleter invoked on it exactly once.
C2_ReleasedExactlyOnce ==
  AdoptedOnce =>
    /\ \A a \in Addr : calls[a] <= 1
    /\ NoneLive =>
         \A a \in Addr :
           (adoptions[a] = 1 /\ a \notin handedBack) => calls[a] = 1

\* every object is destroyed; of two addresses, each adopted once, one was
\* handed back by release() and never freed, the other was freed once by the
\* destructor of the second object
C2_Witness ==
  /\ AdoptedOnce
  /\ alive[1] = "dead" /\ alive[2] = "dead"
  /\ Held(2) # Null
  /\ adoptions[Held(2)] = 1 /\ calls[Held(2)] = 1
  /\ \E b \in handedBack : adoptions[b] = 1 /\ calls[b] = 0

\* ---- C3 ----
LiveResource ==
  \A i \in Inst : IsLive(i) => (Held(i) = Null \/ calls[Held(i)] = 0)

\* C3 as stated: the caller never adopts an address that another live object
\* holds or that the deleter was already invoked on; then every live object
\* holds null or an address the deleter has not been invoked on.
C3_Original == (misuse \cap {"other", "invoked"} = {}) => LiveResource

\* C3 amended: the caller also never resets an object to the address that
\* object itself holds.
C3_LiveResource == (misuse = {}) => LiveResource

\* a disciplined caller, a live object owning an address, another one freed
C3_Witness ==
  /\ misuse = {}
  /\ \E i \in Inst : IsLive(i) /\ Held(i) # Null /\ calls[Held(i)] = 0
  /\ \E a \in Addr : calls[a] = 1

\* ---- C4 ----
\* C4: after (converting) move construction of last.a from last.b the new
\* object holds what the source held, the source holds null and no deleter
\* was invoked.
C4_MoveCtor ==
  last.op \in {"move_ctor", "conv_move_ctor"} =>
    /\ Held(last.a) = last.preB.first
    /\ Held(last.b) = Null
    /\ last.inv = <<>>

C4_Witness ==
  /\ last.op = "move_ctor"
  /\ last.preB.first # Null
  /\ Held(last.a) = last.preB.first

\* ---- C5 ----
\* C5: after move assignment between two distinct objects the destination
\* holds what the source held, the source holds null, and the deleter was
\* invoked exactly once on the destination's previous address if that was
\* non-null and not at all otherwise.
C5_MoveAssign ==
  (last.op \in {"move_assign", "conv_move_assign"} /\ last.a # last.b) =>
    /\ Held(last.a) = last.preB.first
    /\ Held(last.b) = Null
    /\ ReleasesOnly(last.preA.first)

C5_Witness ==
  /\ last.op = "move_assign"
  /\ last.a # last.b
  /\ last.preA.first # Null
  /\ last.preB.first # Null
  /\ last.preA.first # last.preB.first
  /\ InvokedOnceOn(last.preA.first)

\* ---- C6 ----
\* C6: self move assignment leaves the stored address unchanged and invokes
\* no deleter; the destruction that follows it releases the address once.
C6_SelfMoveAssign ==
  /\ (last.op = "move_assign" /\ last.a = last.b) =>
       /\ Held(last.a) = last.preA.first
       /\ last.inv = <<>>
  /\ (last.op = "dtor" /\ last.prev = <<"self_move_assign", last.a>>) =>
       ReleasesOnly(last.preA.first)

C6_Witness ==
  /\ last.op = "dtor"
  /\ last.prev = <<"self_move_assign", last.a>>
  /\ last.preA.first # Null
  /\ InvokedOnceOn(last.preA.first)

\* ---- C7 ----
\* C7: release() returns the address held at the start of the call, leaves
\* null, invokes no deleter and keeps the stored deleter; the destruction
\* that follows it invokes no deleter.
C7_Release ==
  /\ last.op = "release" =>
       /\ last.ret = last.preA.first
       /\ Held(last.a) = Null
       /\ last.inv = <<>>
       /\ pair_[last.a].second = last.preA.second
  /\ (last.op = "dtor" /\ last.prev = <<"release", last.a>>) =>
       last.inv = <<>>

C7_Witness ==
  /\ last.op = "release"
  /\ last.preA.first # Null
  /\ last.ret = last.preA.first
  /\ last.preA.second # DefaultDeleter

\* ---- C8 ----
\* C8: reset(q) leaves get() = q and invokes the deleter exactly once on the
\* previous address iff that was non-null; reset() is reset(nullptr).
C8_Reset ==
  /\ last.op = "reset" =>
       /\ Held(last.a) = last.p
       /\ ReleasesOnly(last.preA.first)
  /\ last.op = "reset_default" =>
       /\ Held(last.a) = Null
       /\ ReleasesOnly(last.preA.first)

C8_Witness ==
  /\ last.op = "reset"
  /\ last.p # Null
  /\ last.preA.first # Null
  /\ last.preA.first # last.p
  /\ InvokedOnceOn(last.preA.first)

\* ---- C9 ----
\* C9: the destructor invokes the stored deleter exactly once, on the held
\* address, when that is non-null, and invokes nothing when it is null.
C9_Dtor ==
  last.op = "dtor" =>
    last.inv = IF last.preA.first # Null
                 THEN << <<last.preA.second, last.preA.first>> >>
                 ELSE <<>>

C9_Witness ==
  /\ last.op = "dtor"
  /\ last.preA.first # Null
  /\ last.preA.second # DefaultDeleter
  /\ InvokedOnceOn(last.preA.first)

\* ---- C10 ----
\* C10: swap, member or free, leaves each object with the address and the
\* deleter the other had and invokes no deleter.
C10_Swap ==
  last.op \in {"swap", "free_swap"} =>
    /\ pair_[last.a] = last.preB
    /\ pair_[last.b] = last.preA
    /\ last.inv = <<>>

C10_Witness ==
  /\ last.op = "swap"
  /\ last.a # last.b
  /\ last.preA.first # Null /\ last.preB.first # Null
  /\ last.preA.first # last.preB.first
  /\ last.preA.second # last.preB.second
  /\ pair_[last.a] = last.preB

\* ---- C11 ----
\* C11: assigning nullptr leaves get() = nullptr and invokes the deleter
\* exactly once on the held address iff that was non-null, as reset(nullptr).
C11_NullAssign ==
  last.op = "null_assign" =>
    /\ Held(last.a) = Null
    /\ ReleasesOnly(last.preA.first)

C11_Witness ==
  /\ last.op = "null_assign"
  /\ last.preA.first # Null
  /\ Held(last.a) = Null
  /\ InvokedOnceOn(last.preA.first)

\* ---- C12 ----
ComparesNull(i) == ~operator_bool(Machine, i) /\ eq_nullptr(Machine, i)

\* C12: an object converts to true iff it holds a non-null address and
\* equals nullptr iff it holds null; so it converts to false and equals
\* nullptr after default construction, release(), null assignment and after
\* being moved from.
C12_BoolAndNull ==
  /\ \A i \in Inst :
       IsLive(i) =>
         /\ operator_bool(Machine, i) <=> Held(i) # Null
         /\ eq_nullptr(Machine, i) <=> Held(i) = Null
  /\ last.op \in {"ctor", "ctor_null", "release", "null_assign"} =>
       ComparesNull(last.a)
  /\ last.op \in {"move_ctor", "conv_move_ctor"} => ComparesNull(last.b)
  /\ (last.op \in {"move_assign", "conv_move_assign"} /\ last.a # last.b) =>
       ComparesNull(last.b)

\* an object that held an address has been moved from and now equals nullptr
C12_Witness ==
  /\ last.op = "move_ctor"
  /\ last.preB.first # Null
  /\ ComparesNull(last.b)
  /\ operator_bool(Machine, last.a)

\* ---- C13 ----
\* C13: x == y iff the stored addresses are equal, x <=> y is the comparison
\* of the stored addresses, whatever deleters the two objects have.
C13_Comparisons ==
  \A x \in Inst, y \in Inst :
    (IsLive(x) /\ IsLive(y)) =>
      /\ operator_eq(Machine, x, y) <=> Held(x) = Held(y)
      /\ three_way(Machine, x, y) = "less" <=> Held(x) < Held(y)
      /\ three_way(Machine, x, y) = "greater" <=> Held(x) > Held(y)
      /\ three_way(Machine, x, y) = "equal" <=> operator_eq(Machine, x, y)
      /\ operator_eq(Machine, x, x)

\* two objects with different deleters holding different addresses
C13_Witness ==
  /\ IsLive(1) /\ IsLive(2)
  /\ Held(1) # Null /\ Held(2) # Null /\ Held(1) < Held(2)
  /\ pair_[1].second # pair_[2].second
  /\ ~operator_eq(Machine, 1, 2)
  /\ three_way(Machine, 1, 2) = "less"

\* ---- C14 ----
\* C14: default construction and construction from nullptr yield get() =
\* nullptr, construction from p (deleter defaulted, copied or moved) yields
\* get() = p, and no constructor invokes a deleter.
C14_Constructors ==
  /\ last.op \in {"ctor", "ctor_null"} =>
       Held(last.a) = Null /\ last.inv = <<>>
  /\ last.op \in {"ctor_p", "ctor_pd", "ctor_pd_move"} =>
       Held(last.a) = last.p /\ last.inv = <<>>

C14_Witness ==
  /\ last.op = "ctor_p"
  /\ last.p # Null
  /\ Held(last.a) = last.p
  /\ last.inv = <<>>

\* ---- C16 ----
Invocations == 1..Len(last.inv)

\* C16 as stated: whenever reset(p) invokes the deleter, the object already
\* holds p, and p is not the address being released.
C16_Original ==
  last.op \in {"reset", "reset_default"} =>
    \A k \in Invocations :
      /\ last.seen[k].A.first = last.p
      /\ last.seen[k].A.first # last.inv[k][2]

\* C16 amended: the object already holds p when the deleter runs; p is not
\* the address being released unless the caller passed the address the
\* object held.
C16_ResetOrder ==
  last.op \in {"reset", "reset_default"} =>
    \A k \in Invocations :
      /\ last.seen[k].A.first = last.p
      /\ last.p # last.preA.first => last.seen[k].A.first # last.inv[k][2]

C16_Witness ==
  /\ last.op = "reset"
  /\ last.p # Null /\ last.preA.first # Null /\ last.p # last.preA.first
  /\ Len(last.inv) = 1
  /\ last.seen[1].A.first = last.p
  /\ last.inv[1][2] = last.preA.first

\* ---- C17 ----
\* C17: when move assignment of last.a from last.b invokes the deleter, the
\* source is already null, the destination already holds the source's
\* address and still has its own deleter, which is the one invoked, on the
\* destination's previous address; afterwards the destination has the
\* source's deleter.
C17_MoveAssignOrder ==
  last.op \in {"move_assign", "conv_move_assign"} =>
    /\ Len(last.inv) = IF last.a # last.b /\ last.preA.first # Null
                         THEN 1 ELSE 0
    /\ \A k \in Invocations :
         /\ last.inv[k] = <<last.preA.second, last.preA.first>>
         /\ last.seen[k].B.first = Null
         /\ last.seen[k].A.first = last.preB.first
         /\ last.seen[k].A.second = last.preA.second
    /\ pair_[last.a].second = last.preB.second

C17_Witness ==
  /\ last.op = "move_assign"
  /\ last.a # last.b
  /\ last.preA.first # Null /\ last.preB.first # Null
  /\ last.preA.second # last.preB.second
  /\ last.inv = << <<last.preA.second, last.preA.first>> >>
  /\ pair_[last.a].second = last.preB.second

\* ---- C18 ----
DtorInvocations ==
  last.inv = IF last.preA.first # Null
               THEN << <<last.preA.second, last.preA.first>> >>
               ELSE <<>>

\* C18 as stated: the destructor invokes the deleter once on a non-null
\* address and the stored address is null once it has run.
C18_Original ==
  last.op = "dtor" => (DtorInvocations /\ Held(last.a) = Null)

\* C18 amended: the destructor invokes the deleter once on a non-null
\* address and writes neither the stored address nor the stored deleter.
C18_DtorLeavesStorage ==
  last.op = "dtor" =>
    /\ DtorInvocations
    /\ pair_[last.a] = last.preA
    /\ alive[last.a] = "dead"

C18_Witness ==
  /\ last.op = "dtor"
  /\ last.preA.first # Null
  /\ Held(last.a) = last.preA.first
  /\ Len(last.inv) = 1

\* ---- C20 ----
\* C20: a call of an observer or of a comparison changes no object's stored
\* address or stored deleter, ends no object's life and invokes no deleter;
\* get() returns the stored address.
C20_ObserversFrame ==
  [][last'.op \in ObserverOps =>
       /\ pair_' = pair_
       /\ alive' = alive
       /\ calls' = calls
       /\ last'.inv = <<>>
       /\ last'.op = "get" => last'.ret = pair_[last'.a].first]_vars

\* get() has returned the non-null address an object holds
C20_Witness ==
  /\ last.op = "get"
  /\ last.ret # Null
  /\ last.ret = Held(last.a)
  /\ pair_[last.a] = last.preA

\* ---- C19 ----
\* C19: a move constructor whose source has a deleter of reference type
\* leaves the source and the new object referring to the calling code's
\* deleter object; a converting move constructor from such a source to an
\* object with a deleter of value type gives the new object a copy of that
\* deleter object and leaves the deleter object as it was.
C19_ReferencePolicy ==
  /\ (last.op = "move_ctor" /\ last.preB.second = Ref) =>
       /\ pair_[last.a].second = Ref
       /\ pair_[last.b].second = Ref
       /\ ext = last.preExt
  /\ last.op = "conv_move_ctor_from_ref" =>
       /\ pair_[last.a].second = last.preExt
       /\ ext = last.preExt

\* ---- C21 ----
\* C21: every invocation of a deleter on an address that the caller never
\* handed to an object while another live object held it is made with the
\* deleter the address was adopted with: the deleter given to the
\* constructor, or the one the object held when reset(p) adopted it,
\* whatever moves and swaps carried the address to other objects since.
C21_ReleasedByPairedDeleter == mismatch = {}

\* a deleter other than the default one was invoked on the address it is
\* paired with by an object that had not adopted the address: moves or
\* swaps carried it there
C21_Witness == mismatch = {} /\ carried

\* ---- C22 ----
\* every address leaves the objects at most once: one call of release()
\* returns it, or the deleter is invoked on it once
SingleOwnership == \A a \in Addr : obtained[a] + calls[a] <= 1

\* C22: release() and reset() take no lock.  As long as no thread calls a
\* member of an object while another thread is inside a member of the same
\* object, every address is returned by release() or passed to the deleter
\* at most once; calls that overlap on one object lose this (C22_Witness).
C22_NoSynchronization == ~overlapped => SingleOwnership

\* calls overlapped on one object: two calls of release() returned the same
\* address, and a deleter was invoked twice on one address
C22_Witness ==
  /\ overlapped
  /\ \E a \in Addr : obtained[a] = 2 /\ calls[a] = 0
  /\ \E b \in Addr : calls[b] = 2 /\ obtained[b] = 0
====
